---------------------------- MODULE Spec2Model ----------------------------
(***************************************************************************)
(* Model of crates/ra_hir_expand/src/diagnostics.rs: the Diagnostic trait, *)
(* the DiagnosticSinkBuilder, the DiagnosticSink and its dispatch loop,    *)
(* and <dyn Diagnostic>::syntax_node.                                      *)
(*                                                                         *)
(* A concrete diagnostic value is a record of its type and the fields its  *)
(* source() is built from.  An implementation of the trait pairs such a    *)
(* value with the value its as_any() returns: the trait leaves as_any to   *)
(* every implementer (line 26), so the model keeps the two apart.          *)
(***************************************************************************)
EXTENDS Naturals, Sequences, FiniteSets

\* ------------------------------------------------------------------ bounds
MaxHandlers == 2
MaxPushes == 3

\* ------------------------------------------------------------ value domains
\* Concrete types implementing Diagnostic (an open set; three stand for it).
Types == {"UnresolvedImport", "TypeMismatch", "UnknownVariant"}
Files == {"f1", "f2"}
Ptrs == {"p1", "p2"}
Trees == {[root |-> "t1"], [root |-> "t2"]}

\* A concrete diagnostic value: its type and its producer-specific fields.
Values == [ty : Types, file : Files, ptr : Ptrs]

\* Option::None / no callback / no diagnostic.
None == [none |-> TRUE]
\* The outcome of a failed unwrap().
Panic == [panic |-> TRUE]

\* An implementation of the trait as the sink sees it through &dyn Diagnostic:
\* the value itself and the value its as_any() hands out.
Impls == [val : Values, any : Values]

\* Implementations whose as_any() is `self`.
Conforming == {d \in Impls : d.any = d.val}

\* Diagnostic::message, Diagnostic::source (trait methods, per value).
Message(d) == <<"msg", d.val.ty, d.val.ptr>>
Source(d) == [file_id |-> d.val.file, value |-> d.val.ptr]

\* Diagnostic::as_any
AsAny(d) == d.any

\* What message()/source() give on a typed reference &D to value v.
MessageOfValue(v) == <<"msg", v.ty, v.ptr>>
SourceOfValue(v) == [file_id |-> v.file, value |-> v.ptr]

\* A cast that does not compare TypeIds.
AnyDowncastUnchecked(a, D) == a

\* <dyn Any>::downcast_ref::<D>: Some(value) iff the value's TypeId is D's.
AnyDowncastRef(a, D) == IF a.ty = D THEN a ELSE None

\* A recovery keyed on the diagnostic itself instead of on its as_any().
DowncastRefSelf(d, D) == AnyDowncastRef(d.val, D)

\* <dyn Diagnostic>::downcast_ref::<D>: self.as_any().downcast_ref()
DowncastRef(d, D) == AnyDowncastRef(AsAny(d), D)


\* --------------------------------------------------------------- the state
VARIABLES
    impls,              \* the trait implementations producers construct
    phase,              \* "builder": DiagnosticSinkBuilder; "sink": DiagnosticSink
    callbacks,          \* Vec of boxed entries: [D: expected type, cb: user closure]
    default_callback,   \* the sink's fallback closure (None while building)
    pc,                 \* position of _push: "idle" | "loop"
    d,                  \* the &dyn Diagnostic of the running (or last) push
    idx,                \* position of callbacks.iter_mut() (1-based)
    attempts,           \* downcast_ref attempts made by the running (or last) push
    invoked,            \* user closures run by the running (or last) push, in order
    cnt,                \* state captured by the user closures: one counter each
    pushes,             \* number of push calls so far
    pushedOf,           \* per concrete type, number of diagnostics pushed
    firstSel,           \* per concrete type, the closure its first push selected
    regs,               \* the types given to on::<D>, in call order
    builtWith,          \* the closure given to build
    node                \* last syntax_node call: its inputs and its outcome

vars == <<impls, phase, callbacks, default_callback, pc, d, idx, attempts,
          invoked, cnt, pushes, pushedOf, firstSel, regs, builtWith, node>>

\* User closures are named by the position at which they were registered;
\* the fallback closures by their own names.
Handler(k) == [kind |-> "handler", n |-> k]
Fallbacks == {[kind |-> "fallback", n |-> k] : k \in 1..2}
Labels == {Handler(k) : k \in 1..MaxHandlers} \cup Fallbacks

\* DiagnosticSinkBuilder::new
New == <<>>

InitWith(S) ==
    /\ impls = S
    /\ phase = "builder"
    /\ callbacks = New
    /\ default_callback = None
    /\ pc = "idle"
    /\ d = None
    /\ idx = 0
    /\ attempts = 0
    /\ invoked = <<>>
    /\ cnt = [l \in Labels |-> 0]
    /\ pushes = 0
    /\ pushedOf = [t \in Types |-> 0]
    /\ firstSel = [t \in Types |-> None]
    /\ regs = <<>>
    /\ builtWith = None
    /\ node = None

\* The diagnostics of one analysis pass over one file.
OnePass == {i \in Impls : i.val.file = "f1" /\ i.any.file = "f1"}

\* Implementations whose as_any() is not self: it hands out another value of
\* the same type, or a value of another type.
Foreign ==
    {i \in OnePass : /\ i.any # i.val
                     /\ i.val.ptr = "p1"
                     /\ (i.any.ty = i.val.ty \/ i.any.ptr = "p1")}

AnyImpls == (Conforming \cap OnePass) \cup Foreign

\* Producers whose as_any() returns self.
Init == InitWith(Conforming \cap OnePass)

\* Producers with the implementations of as_any() the trait admits.
InitAny == InitWith(AnyImpls)

\* ----------------------------------------------------------- the builder
\* A user closure registered nowhere before: named by its registration.
OnPushFront(cbs, D) == <<[D |-> D, cb |-> Handler(Len(cbs) + 1)]>> \o cbs

OnPushUnique(cbs, D) ==
    IF \E i \in 1..Len(cbs) : cbs[i].D = D
    THEN cbs
    ELSE Append(cbs, [D |-> D, cb |-> Handler(Len(cbs) + 1)])

\* DiagnosticSinkBuilder::on::<D, F>: self.callbacks.push(Box::new(cb))
OnPush(cbs, D) == Append(cbs, [D |-> D, cb |-> Handler(Len(cbs) + 1)])

On(D) ==
    /\ phase = "builder"
    /\ Len(regs) < MaxHandlers
    /\ callbacks' = OnPush(callbacks, D)
    /\ regs' = Append(regs, D)
    /\ UNCHANGED <<impls, phase, default_callback, pc, d, idx, attempts,
                   invoked, cnt, pushes, pushedOf, firstSel, builtWith, node>>

\* DiagnosticSinkBuilder::build: the sink's two fields.
BuildCallbacks(cbs) == cbs
BuildDefault(F) == F

Build(F) ==
    /\ phase = "builder"
    /\ phase' = "sink"
    /\ callbacks' = BuildCallbacks(callbacks)
    /\ default_callback' = BuildDefault(F)
    /\ builtWith' = F
    /\ UNCHANGED <<impls, pc, d, idx, attempts, invoked, cnt, pushes,
                   pushedOf, firstSel, regs, node>>

\* -------------------------------------------------------------- the sink
\* A user closure runs: it bumps its counter; the model records what it saw.
Call(label, arg, msg, src) ==
    /\ cnt' = [cnt EXCEPT ![label] = @ + 1]
    /\ invoked' = Append(invoked, [cb |-> label, arg |-> arg, msg |-> msg, src |-> src])
    /\ firstSel' = IF firstSel[d.val.ty] = None
                   THEN [firstSel EXCEPT ![d.val.ty] = label]
                   ELSE firstSel

\* DiagnosticSink::push: takes the diagnostic by value, calls _push on &d.
Push(dd) ==
    /\ phase = "sink"
    /\ pc = "idle"
    /\ pushes < MaxPushes
    /\ d' = dd
    /\ pc' = "loop"
    /\ idx' = 1
    /\ attempts' = 0
    /\ invoked' = <<>>
    /\ pushes' = pushes + 1
    /\ pushedOf' = [pushedOf EXCEPT ![dd.val.ty] = @ + 1]
    /\ UNCHANGED <<impls, phase, callbacks, default_callback, cnt, firstSel,
                   regs, builtWith, node>>

AfterEntryNoReturn(ok) == "loop"

AfterEntryReturn(ok) == "idle"

\* What the loop does after an entry returned: Ok(()) => return, Err(()) => ().
AfterEntry(ok) == IF ok THEN "idle" ELSE "loop"

\* The entry built by on::<D>, run on the diagnostic: downcast_ref::<D>, then
\* the closure on Some (answering Ok) and nothing on None (answering Err).
RunEntry(e) ==
    LET r == DowncastRef(d, e.D)
    IN  /\ attempts' = attempts + 1
        /\ IF r # None
           THEN Call(e.cb, r, MessageOfValue(r), SourceOfValue(r))
           ELSE UNCHANGED <<cnt, invoked, firstSel>>
        /\ pc' = AfterEntry(r # None)

\* An iteration that does not advance the iterator when the entry answers Err.
LoopStepRetry ==
    /\ pc = "loop"
    /\ idx <= Len(callbacks)
    /\ RunEntry(callbacks[idx])
    /\ idx' = IF DowncastRef(d, callbacks[idx].D) # None THEN idx + 1 ELSE idx
    /\ UNCHANGED <<impls, phase, callbacks, default_callback, d, pushes,
                   pushedOf, regs, builtWith, node>>

\* An iteration that takes the entry that matched out of the list.
LoopStepConsume ==
    /\ pc = "loop"
    /\ idx <= Len(callbacks)
    /\ RunEntry(callbacks[idx])
    /\ idx' = idx + 1
    /\ callbacks' = IF DowncastRef(d, callbacks[idx].D) # None
                    THEN SubSeq(callbacks, 1, idx - 1)
                         \o SubSeq(callbacks, idx + 1, Len(callbacks))
                    ELSE callbacks
    /\ UNCHANGED <<impls, phase, default_callback, d, pushes,
                   pushedOf, regs, builtWith, node>>

\* One iteration of `for cb in self.callbacks.iter_mut()`.
LoopStep ==
    /\ pc = "loop"
    /\ idx <= Len(callbacks)
    /\ RunEntry(callbacks[idx])
    /\ idx' = idx + 1
    /\ UNCHANGED <<impls, phase, callbacks, default_callback, d, pushes,
                   pushedOf, regs, builtWith, node>>

\* A loop that falls off its end without running the fallback.
DefaultSkip ==
    /\ pc = "loop"
    /\ idx > Len(callbacks)
    /\ pc' = "idle"
    /\ UNCHANGED <<impls, phase, callbacks, default_callback, d, idx, attempts,
                   invoked, cnt, firstSel, pushes, pushedOf, regs, builtWith, node>>

\* The list is exhausted: (self.default_callback)(d)
Default ==
    /\ pc = "loop"
    /\ idx > Len(callbacks)
    /\ Call(default_callback, d, Message(d), Source(d))
    /\ pc' = "idle"
    /\ UNCHANGED <<impls, phase, callbacks, default_callback, d, idx, attempts,
                   pushes, pushedOf, regs, builtWith, node>>

Next ==
    \/ \E D \in Types : On(D)
    \/ \E F \in Fallbacks : Build(F)
    \/ \E dd \in impls : Push(dd)
    \/ LoopStep
    \/ Default

Spec == Init /\ [][Next]_vars

SpecAny == InitAny /\ [][Next]_vars

\* push runs synchronously to completion: a started push is never abandoned.
FairSpec == Init /\ [][Next]_vars /\ WF_vars(LoopStep) /\ WF_vars(Default)

\* ------------------------------------------------------------ syntax_node
\* The collaborator: each file parses or expands to a tree, or to nothing.
Dbs == [Files -> Trees \cup {None}]

\* AstDatabase::parse_or_expand
ParseOrExpand(db, file_id) == db[file_id]

\* SyntaxNodePtr::to_node
ToNode(ptr, root) == [tree |-> root, at |-> ptr]

\* A resolution that answers None where the file does not resolve.
SyntaxNodeOrNone(dd, db) ==
    LET parsed == ParseOrExpand(db, Source(dd).file_id)
    IN  IF parsed = None THEN None ELSE ToNode(Source(dd).value, parsed)

\* <dyn Diagnostic>::syntax_node: unwrap() of the parse, then to_node.
SyntaxNodeOf(dd, db) ==
    LET parsed == ParseOrExpand(db, Source(dd).file_id)
    IN  IF parsed = None THEN Panic ELSE ToNode(Source(dd).value, parsed)

SyntaxNode(dd, db) ==
    /\ node' = [d |-> dd, db |-> db, result |-> SyntaxNodeOf(dd, db)]
    /\ UNCHANGED <<impls, phase, callbacks, default_callback, pc, d, idx,
                   attempts, invoked, cnt, pushes, pushedOf, firstSel, regs,
                   builtWith>>

\* syntax_node reads source() alone: the conforming implementations, any file.
InitNode == InitWith(Conforming)

NextNode == \E dd \in impls, db \in Dbs : SyntaxNode(dd, db)

SpecNode == InitNode /\ [][NextNode]_vars

\* ------------------------------------------------------------ properties
\* A push has been made and has returned.
Completed == phase = "sink" /\ pc = "idle" /\ pushes > 0

\* Positions of the entries registered for type t.
Matches(t) == {i \in 1..Len(callbacks) : callbacks[i].D = t}

Min(S) == CHOOSE m \in S : \A n \in S : m <= n

\* The user closures of the sink.
SinkClosures == {callbacks[i].cb : i \in 1..Len(callbacks)} \cup {default_callback}

RECURSIVE Sum(_, _)
Sum(f, S) == IF S = {} THEN 0
             ELSE LET x == CHOOSE y \in S : TRUE IN f[x] + Sum(f, S \ {x})

\* C1: a push that has returned ran exactly one closure, one of the sink's
\* handlers or its fallback; no push, running or returned, ran more than one.
ExactlyOneCallback ==
    /\ Len(invoked) <= 1
    /\ Completed => /\ Len(invoked) = 1
                    /\ invoked[1].cb \in SinkClosures
                    /\ invoked[1].cb # None

\* Duplicate registrations, a handler ran.
ExactlyOneWitness ==
    /\ Completed
    /\ Len(callbacks) = 2
    /\ callbacks[1].D = callbacks[2].D
    /\ Len(invoked) = 1
    /\ invoked[1].cb = Handler(1)

\* C2: when some handler is registered for the diagnostic's type, the closure
\* run is the one registered first for that type, it is reached after as many
\* attempts as its position, and nothing else (later handler, fallback) runs.
FirstMatchWins ==
    (Completed /\ Matches(d.val.ty) # {}) =>
        LET first == Min({i \in 1..Len(regs) : regs[i] = d.val.ty})
        IN  /\ Len(invoked) = 1
            /\ invoked[1].cb = Handler(first)
            /\ invoked[1].arg = d.val
            /\ attempts = first
            /\ \A l \in Labels \ {Handler(first)} :
                   \A k \in 1..Len(invoked) : invoked[k].cb # l

\* The matching handler is the second one registered.
FirstMatchWitness ==
    /\ Completed
    /\ Len(callbacks) = 2
    /\ callbacks[1].D # d.val.ty
    /\ callbacks[2].D = d.val.ty
    /\ invoked = <<[cb |-> Handler(2), arg |-> d.val,
                    msg |-> MessageOfValue(d.val), src |-> SourceOfValue(d.val)]>>

\* C3: when no handler is registered for the diagnostic's type, the fallback
\* given to build runs, after every entry was tried, on the diagnostic itself:
\* message() and source() on what it receives are the diagnostic's own.
FallbackRuns ==
    (Completed /\ Matches(d.val.ty) = {}) =>
        /\ attempts = Len(callbacks)
        /\ Len(invoked) = 1
        /\ invoked[1].cb = builtWith
        /\ invoked[1].cb \in Fallbacks
        /\ invoked[1].arg = d
        /\ invoked[1].msg = MessageOfValue(d.val)
        /\ invoked[1].src = SourceOfValue(d.val)

\* Two handlers, neither for the diagnostic's type, and the fallback ran.
FallbackWitness ==
    /\ Completed
    /\ Len(callbacks) = 2
    /\ Matches(d.val.ty) = {}
    /\ Len(invoked) = 1
    /\ invoked[1].cb = default_callback

\* C4: an entry registered for a type other than the diagnostic's never runs
\* its closure: the step over it leaves every closure's state alone and moves
\* on to the next entry.
ExactTypeRecovery ==
    [][(pc = "loop" /\ idx <= Len(callbacks) /\ callbacks[idx].D # d.val.ty) =>
          /\ invoked' = invoked
          /\ cnt' = cnt
          /\ pc' = "loop"
          /\ idx' = idx + 1
          /\ attempts' = attempts + 1]_vars

\* An entry for another type was passed over, the next one ran.
ExactTypeWitness ==
    /\ Completed
    /\ attempts = 2
    /\ callbacks[1].D # d.val.ty
    /\ Len(invoked) = 1
    /\ invoked[1].cb = Handler(2)
    /\ cnt[Handler(1)] = 0

\* No two entries of the sink expect the same type.
DistinctTypes ==
    \A i, j \in 1..Len(callbacks) : i # j => callbacks[i].D # callbacks[j].D

Registered == {callbacks[i].D : i \in 1..Len(callbacks)}

\* C5: between pushes, on a sink whose handlers expect pairwise distinct
\* types, each handler's counter is the number of diagnostics pushed of its
\* type, the fallback's the number pushed of unregistered types, all counters
\* sum to the number of pushes, and with no push every counter is 0.
CountsMatchPushes ==
    (pc = "idle" /\ DistinctTypes) =>
        /\ \A i \in 1..Len(callbacks) : cnt[callbacks[i].cb] = pushedOf[callbacks[i].D]
        /\ phase = "sink" =>
              cnt[default_callback] = Sum(pushedOf, Types \ Registered)
        /\ Sum(cnt, Labels) = pushes
        /\ Sum(pushedOf, Types) = pushes
        /\ pushes = 0 => (\A l \in Labels : cnt[l] = 0) /\ invoked = <<>>

\* The scenario: two handlers, one push of each of the three types.
CountsWitness ==
    /\ Completed
    /\ pushes = 3
    /\ callbacks = <<[D |-> "UnresolvedImport", cb |-> Handler(1)],
                     [D |-> "TypeMismatch", cb |-> Handler(2)]>>
    /\ cnt[Handler(1)] = 1
    /\ cnt[Handler(2)] = 1
    /\ cnt[default_callback] = 1
    /\ \A t \in Types : pushedOf[t] = 1

\* C6: the handler list is the registrations in call order, one entry each
\* (repeated types included), empty after new(); the builder has no fallback
\* and the built sink has the one given to build.
BuilderKeepsOrder ==
    /\ Len(callbacks) = Len(regs)
    /\ \A i \in 1..Len(regs) : callbacks[i] = [D |-> regs[i], cb |-> Handler(i)]
    /\ phase = "builder" => default_callback = None
    /\ phase = "sink" => default_callback = builtWith /\ builtWith \in Fallbacks

\* A sink built from two registrations of the same type.
BuilderWitness ==
    /\ phase = "sink"
    /\ Len(regs) = 2
    /\ regs[1] = regs[2]
    /\ Len(callbacks) = 2
    /\ default_callback \in Fallbacks

\* C7: a running push returns; it makes at most one attempt per entry and runs
\* at most one closure, and a push that ran a handler stopped at that entry.
PushCompletes ==
    /\ [](/\ attempts <= Len(callbacks)
          /\ Len(invoked) <= 1
          /\ pc = "loop" => idx = attempts + 1
          /\ (Completed /\ Len(invoked) = 1 /\ invoked[1].cb \notin Fallbacks) =>
                 /\ callbacks[attempts].cb = invoked[1].cb
                 /\ idx = attempts + 1)
    /\ (pc = "loop") ~> (pc = "idle")

\* A push that returned at the first of two entries.
PushCompletesWitness ==
    /\ Completed
    /\ Len(callbacks) = 2
    /\ attempts = 1
    /\ Len(invoked) = 1
    /\ invoked[1].cb = Handler(1)

\* C8: syntax_node panics when the source's file does not resolve, and
\* otherwise answers the node of the source's pointer in the file's tree; it
\* answers nothing else.
SyntaxNodeUnwraps ==
    node # None =>
        LET file == node.d.val.file
            ptr == node.d.val.ptr
        IN  /\ node.db[file] = None => node.result = Panic
            /\ node.db[file] # None =>
                   node.result = [tree |-> node.db[file], at |-> ptr]
            /\ node.result # None

\* A call on a file that does not resolve while the other file does.
SyntaxNodeWitness ==
    /\ node # None
    /\ node.db[node.d.val.file] = None
    /\ \E f \in Files : node.db[f] # None
    /\ node.result = Panic

\* The closure the registrations and the fallback given to build select for t.
Selected(t) ==
    IF \E i \in 1..Len(regs) : regs[i] = t
    THEN Handler(Min({i \in 1..Len(regs) : regs[i] = t}))
    ELSE builtWith

\* C9: once built, no step changes the sink's entries or its fallback, and
\* they hold closures only; the closure a returned push ran is the one its
\* type's first push ran, the one the build-time registrations select.
PushLeavesSink ==
    /\ [][phase = "sink" =>
            /\ phase' = "sink"
            /\ callbacks' = callbacks
            /\ default_callback' = default_callback]_vars
    /\ [](phase = "sink" =>
            /\ \A i \in 1..Len(callbacks) : callbacks[i] \in [D : Types, cb : Labels]
            /\ default_callback \in Fallbacks)
    /\ [](Completed =>
            /\ Len(invoked) = 1
            /\ invoked[1].cb = firstSel[d.val.ty]
            /\ invoked[1].cb = Selected(d.val.ty))

\* A type pushed again after a push of another type and one of its own.
PushLeavesSinkWitness ==
    /\ Completed
    /\ pushes = 3
    /\ pushedOf[d.val.ty] = 2
    /\ Len(callbacks) = 2
    /\ Len(invoked) = 1
    /\ invoked[1].cb = Handler(2)

\* What a push of dd keyed on a type t would run, and on what.
Outcome(dd, t, typed) ==
    IF Matches(t) # {}
    THEN [cb |-> callbacks[Min(Matches(t))].cb, arg |-> typed]
    ELSE [cb |-> default_callback, arg |-> dd]

=============================================================================
